---- MODULE Spec2Model ----
(***************************************************************************)
(* go-worktree: a command-line manager of git worktrees keyed by ticket.   *)
(*                                                                         *)
(* The model follows cmd/go-worktree/main.go, internal/worktree/worktree.go*)
(* (both in src/unnamed/part_000) and internal/git/git.go.  One action is  *)
(* one invocation of the program; the environment (the user's shell, the   *)
(* file system, git) moves between invocations.                            *)
(*                                                                         *)
(* Text is modelled as text: a string is a sequence of one-character       *)
(* strings, so that path joining, `git worktree list` formatting and the   *)
(* program's parsing of that output are computed, not assumed.             *)
(***************************************************************************)
EXTENDS Integers, Sequences, FiniteSets, TLC

VARIABLES
    fs,         \* the file system: path -> "dir" | "file" (absent = not in DOMAIN)
    worktrees,  \* git's worktrees, main checkout first: <<[path, branch], ...>>
    branches,   \* git's local branches: name -> commit
    cwd,        \* the directory the next command is invoked from
    ext,        \* number of changes made to the file system behind the tool's back
    last        \* the most recent invocation: its arguments, what it did, its result

vars == <<fs, worktrees, branches, cwd, ext, last>>

(***************************************************************************)
(* Bounds of the model                                                     *)
(***************************************************************************)
\* How many times the user changes the worktree tree by hand in one run.
MaxExt == 2

(***************************************************************************)
(* Strings (Go's strings package, as far as the program uses it)           *)
(***************************************************************************)
SpaceChars == {" ", "\n", "\t"}

\* Bytes in increasing order, for the characters the model uses.
Alphabet == <<"\t", "\n", " ", "(", ")", "-", ".", "/", "0", "1", "2", "3", "4", "5",
              "6", "7", "8", "9", "=", "T", "[", "]", "a", "b", "c", "d", "e", "f", "g",
              "h", "i", "j", "k", "l", "m", "n", "o", "p", "q", "r", "s", "t", "u", "v",
              "w", "x", "y", "z">>

CharRank(c) == CHOOSE i \in 1..Len(Alphabet) : Alphabet[i] = c

\* Byte-wise string order, as Go compares strings (os.ReadDir sorts by it).
RECURSIVE StrLess(_, _)
StrLess(a, b) ==
    IF b = <<>> THEN FALSE
    ELSE IF a = <<>> THEN TRUE
    ELSE IF a[1] = b[1] THEN StrLess(Tail(a), Tail(b))
    ELSE CharRank(a[1]) < CharRank(b[1])

\* strings.IndexByte: first index of c in s, 0 when absent.
IndexOf(s, c) ==
    IF \E i \in 1..Len(s) : s[i] = c
    THEN CHOOSE i \in 1..Len(s) : s[i] = c /\ \A j \in 1..(i-1) : s[j] # c
    ELSE 0

\* strings.LastIndexByte
LastIndexOf(s, c) ==
    IF \E i \in 1..Len(s) : s[i] = c
    THEN CHOOSE i \in 1..Len(s) : s[i] = c /\ \A j \in (i+1)..Len(s) : s[j] # c
    ELSE 0

RECURSIVE TrimLeftSet(_, _)
TrimLeftSet(s, cut) ==
    IF s = <<>> \/ s[1] \notin cut THEN s ELSE TrimLeftSet(Tail(s), cut)

RECURSIVE TrimRightSet(_, _)
TrimRightSet(s, cut) ==
    IF s = <<>> \/ s[Len(s)] \notin cut THEN s
    ELSE TrimRightSet(SubSeq(s, 1, Len(s) - 1), cut)

\* strings.Trim(s, cutset)
StrTrim(s, cut) == TrimRightSet(TrimLeftSet(s, cut), cut)

\* strings.TrimSpace
TrimSpace(s) == StrTrim(s, SpaceChars)

\* strings.Split(s, sep) for a one-character separator
RECURSIVE StrSplit(_, _)
StrSplit(s, c) ==
    LET i == IndexOf(s, c)
    IN IF i = 0 THEN <<s>>
       ELSE <<SubSeq(s, 1, i - 1)>> \o StrSplit(SubSeq(s, i + 1, Len(s)), c)

\* strings.Fields: the maximal runs of non-space characters
RECURSIVE Fields(_)
Fields(s) ==
    LET t == TrimLeftSet(s, SpaceChars)
    IN IF t = <<>> THEN <<>>
       ELSE LET sp == {i \in 1..Len(t) : t[i] \in SpaceChars}
                n  == IF sp = {} THEN Len(t) + 1
                      ELSE CHOOSE i \in sp : \A j \in sp : i <= j
            IN <<SubSeq(t, 1, n - 1)>> \o Fields(SubSeq(t, n, Len(t)))

\* strings.Join(parts, sep)
RECURSIVE StrJoin(_, _)
StrJoin(parts, sep) ==
    IF parts = <<>> THEN <<>>
    ELSE IF Len(parts) = 1 THEN parts[1]
    ELSE parts[1] \o sep \o StrJoin(Tail(parts), sep)

(***************************************************************************)
(* Paths (Go's path/filepath on a Unix system)                             *)
(***************************************************************************)
\* The elements of a cleaned path: "" and "." dropped, ".." removing the
\* element before it (or, in a rooted path, itself at the root).
RECURSIVE CleanElems(_, _, _)
CleanElems(elems, acc, rooted) ==
    IF elems = <<>> THEN acc
    ELSE LET e == elems[1]
         IN IF e = <<>> \/ e = <<".">> THEN CleanElems(Tail(elems), acc, rooted)
            ELSE IF e = <<".", ".">>
            THEN IF acc # <<>> /\ acc[Len(acc)] # <<".", ".">>
                 THEN CleanElems(Tail(elems), SubSeq(acc, 1, Len(acc) - 1), rooted)
                 ELSE IF rooted THEN CleanElems(Tail(elems), acc, rooted)
                 ELSE CleanElems(Tail(elems), Append(acc, e), rooted)
            ELSE CleanElems(Tail(elems), Append(acc, e), rooted)

\* filepath.Clean
Clean(p) ==
    IF p = <<>> THEN <<".">>
    ELSE LET rooted == p[1] = "/"
             body   == StrJoin(CleanElems(StrSplit(p, "/"), <<>>, rooted), <<"/">>)
         IN IF rooted THEN <<"/">> \o body
            ELSE IF body = <<>> THEN <<".">> ELSE body

\* filepath.Join: the non-empty elements joined by the separator, cleaned
Join(elems) ==
    LET ne == SelectSeq(elems, LAMBDA e : e # <<>>)
    IN IF ne = <<>> THEN <<>> ELSE Clean(StrJoin(ne, <<"/">>))

\* filepath.Base
Base(p) ==
    IF p = <<>> THEN <<".">>
    ELSE LET q == TrimRightSet(p, {"/"})
         IN IF q = <<>> THEN <<"/">>
            ELSE SubSeq(q, LastIndexOf(q, "/") + 1, Len(q))

\* filepath.Dir
Dir(p) == Clean(SubSeq(p, 1, LastIndexOf(p, "/")))

\* The file a process whose working directory is dir reaches under the name
\* p: a name that does not start at the root is looked up from dir.
Abs(dir, p) == IF p # <<>> /\ p[1] = "/" THEN p ELSE Join(<<dir, p>>)

(***************************************************************************)
(* Names of the model                                                      *)
(***************************************************************************)
Root          == <<"/">>
HomeDir       == <<"/", "h">>                                \* os.UserHomeDir()
WorktreesName == <<"w", "o", "r", "k", "t", "r", "e", "e", "s">>
T1            == <<"T", "1">>
T2            == <<"T", "2">>
Tickets       == {T1, T2}
MainBranch    == <<"m", "a", "i", "n">>
DevelopBranch == <<"d", "e", "v", "e", "l", "o", "p">>
\* Where the repository's main checkout may live: "/app" or "/my app".
PlainTop      == <<"/", "a", "p", "p">>
SpacedTop     == <<"/", "m", "y", " ", "a", "p", "p">>
MainTops      == {PlainTop, SpacedTop}
\* A directory that belongs to no repository.
OutsideDir    == <<"/", "t", "m", "p">>

(***************************************************************************)
(* The file system (what os.Stat, os.MkdirAll and os.ReadDir see)          *)
(***************************************************************************)
\* q lies strictly below p
IsUnder(q, p) ==
    /\ Len(q) > Len(p) + 1
    /\ SubSeq(q, 1, Len(p)) = p
    /\ q[Len(p) + 1] = "/"

\* os.Stat: "ok", or the errno of the failure.  ENOENT is the only errno for
\* which errors.Is(err, fs.ErrNotExist) holds; a path below a regular file
\* fails with ENOTDIR.
RECURSIVE Stat(_, _)
Stat(f, p) ==
    IF p \in DOMAIN f THEN "ok"
    ELSE IF p = Root THEN "ENOENT"
    ELSE LET par == Stat(f, Dir(p))
         IN IF par = "ok"
            THEN (IF f[Dir(p)] = "dir" THEN "ENOENT" ELSE "ENOTDIR")
            ELSE par

\* errors.Is(err, fs.ErrNotExist) for the error of a Stat
IsNotExist(st) == st = "ENOENT"

\* os.MkdirAll: nothing to do for a directory, ENOTDIR for a file, else the
\* parent first and then the directory itself.
RECURSIVE MkdirAll(_, _)
MkdirAll(f, p) ==
    IF p \in DOMAIN f THEN [ok |-> f[p] = "dir", fs |-> f]
    ELSE IF p = Root THEN [ok |-> FALSE, fs |-> f]
    ELSE LET par == MkdirAll(f, Dir(p))
         IN IF ~par.ok THEN [ok |-> FALSE, fs |-> f]
            ELSE [ok |-> TRUE, fs |-> par.fs @@ (p :> "dir")]

RECURSIVE SortedByName(_)
SortedByName(S) ==
    IF S = {} THEN <<>>
    ELSE LET m == CHOOSE x \in S : \A y \in S \ {x} : StrLess(Base(x), Base(y))
         IN <<m>> \o SortedByName(S \ {m})

\* os.ReadDir: the entries of a directory sorted by file name; an error for
\* a path that is missing or is not a directory.
ReadDir(f, p) ==
    IF p \notin DOMAIN f \/ f[p] # "dir" THEN [ok |-> FALSE, entries |-> <<>>]
    ELSE LET kids == SortedByName({q \in DOMAIN f : q # p /\ Dir(q) = p})
         IN [ok |-> TRUE,
             entries |-> [i \in 1..Len(kids) |->
                            [name |-> Base(kids[i]), isDir |-> f[kids[i]] = "dir"]]]

\* The file system without p and everything below it.
RemoveTree(f, p) ==
    [q \in {x \in DOMAIN f : x # p /\ ~IsUnder(x, p)} |-> f[q]]

(***************************************************************************)
(* git, as the external process the program runs.  A world is the record   *)
(* [fs, wts, brs] of the file system, git's worktrees and git's branches.  *)
(* Every command can also fail for a reason outside the model (a lock, a   *)
(* dirty worktree, no remote): envOk = FALSE.                              *)
(***************************************************************************)
Digits == <<"0", "1", "2", "3", "4", "5", "6", "7", "8", "9">>

\* The abbreviated object name git prints for a commit.
HashText(commit) == <<"c", "0", "f", "f", "e", "e", Digits[commit + 1]>>

Fatal == <<"f", "a", "t", "a", "l">>

WorktreePaths(w) == {w.wts[i].path : i \in 1..Len(w.wts)}

WorktreeAt(w, p) == w.wts[CHOOSE i \in 1..Len(w.wts) : w.wts[i].path = p]

\* git check-ref-format, for the names the model uses
ValidBranchName(b) ==
    /\ b # <<>>
    /\ b[1] # "-"
    /\ \A i \in 1..Len(b) : b[i] \notin SpaceChars

RECURSIVE PadRight(_, _)
PadRight(s, n) == IF Len(s) >= n THEN s ELSE PadRight(Append(s, " "), n)

MaxOf(S) == CHOOSE x \in S : \A y \in S : y <= x

\* git rev-parse --show-toplevel, run in dir
ExecRevParseToplevel(w, dir) ==
    IF dir \in WorktreePaths(w)
    THEN [exit |-> 0, out |-> dir \o <<"\n">>]
    ELSE [exit |-> 128, out |-> Fatal]

\* git fetch origin <branch>: remote-tracking refs are not part of the model
ExecFetch(branch, envOk) ==
    IF envOk THEN [exit |-> 0, out |-> <<>>] ELSE [exit |-> 128, out |-> Fatal]

\* git worktree add <path> -b <branch>, run in dir: the new branch starts at
\* the HEAD of the working tree the command runs in.
ExecWorktreeAddReusingBranch(w, dir, path, branch, envOk) ==
    IF /\ envOk
       /\ dir \in WorktreePaths(w)
       /\ ValidBranchName(branch)
       /\ \A i \in 1..Len(w.wts) : w.wts[i].branch # branch
       /\ Abs(dir, path) \notin DOMAIN w.fs
       /\ MkdirAll(w.fs, Abs(dir, path)).ok
    THEN [exit |-> 0, out |-> <<>>,
          w |-> [fs  |-> MkdirAll(w.fs, Abs(dir, path)).fs,
                 wts |-> Append(w.wts, [path |-> Abs(dir, path), branch |-> branch]),
                 brs |-> w.brs @@ (branch :> w.brs[WorktreeAt(w, dir).branch])]]
    ELSE [exit |-> 128, out |-> Fatal, w |-> w]

ExecWorktreeAdd(w, dir, path, branch, envOk) ==
    IF /\ envOk
       /\ dir \in WorktreePaths(w)
       /\ ValidBranchName(branch)
       /\ branch \notin DOMAIN w.brs
       /\ Abs(dir, path) \notin DOMAIN w.fs
       /\ MkdirAll(w.fs, Abs(dir, path)).ok
    THEN [exit |-> 0, out |-> <<>>,
          w |-> [fs  |-> MkdirAll(w.fs, Abs(dir, path)).fs,
                 wts |-> Append(w.wts, [path |-> Abs(dir, path), branch |-> branch]),
                 brs |-> w.brs @@ (branch :> w.brs[WorktreeAt(w, dir).branch])]]
    ELSE [exit |-> 128, out |-> Fatal, w |-> w]

\* git worktree remove <path>: only a linked worktree, its directory with it
ExecWorktreeRemove(w, dir, path, envOk) ==
    IF /\ envOk
       /\ dir \in WorktreePaths(w)
       /\ \E i \in 2..Len(w.wts) : w.wts[i].path = Abs(dir, path)
       /\ Abs(dir, path) \in DOMAIN w.fs
       /\ w.fs[Abs(dir, path)] = "dir"
    THEN [exit |-> 0, out |-> <<>>,
          w |-> [fs  |-> RemoveTree(w.fs, Abs(dir, path)),
                 wts |-> SelectSeq(w.wts, LAMBDA x : x.path # Abs(dir, path)),
                 brs |-> w.brs]]
    ELSE [exit |-> 128, out |-> Fatal, w |-> w]

\* git branch -D <name>: not a branch that is checked out somewhere
ExecBranchDelete(w, name, envOk) ==
    IF /\ envOk
       /\ name \in DOMAIN w.brs
       /\ \A i \in 1..Len(w.wts) : w.wts[i].branch # name
    THEN [exit |-> 0, out |-> <<>>,
          w |-> [w EXCEPT !.brs = [b \in DOMAIN w.brs \ {name} |-> w.brs[b]]]]
    ELSE [exit |-> 1, out |-> Fatal, w |-> w]

\* One line of `git worktree list`: the path padded to the longest path plus
\* one, a space, the abbreviated commit, a space, the branch in brackets.
WorktreeLine(w, wt) ==
    PadRight(wt.path, 1 + MaxOf({Len(p) : p \in WorktreePaths(w)}))
        \o <<" ">> \o HashText(w.brs[wt.branch])
        \o <<" ", "[">> \o wt.branch \o <<"]", "\n">>

RECURSIVE ConcatAll(_)
ConcatAll(ss) == IF ss = <<>> THEN <<>> ELSE ss[1] \o ConcatAll(Tail(ss))

\* git worktree list, run in dir
ExecWorktreeList(w, dir, envOk) ==
    IF envOk /\ dir \in WorktreePaths(w)
    THEN [exit |-> 0,
          out |-> ConcatAll([i \in 1..Len(w.wts) |-> WorktreeLine(w, w.wts[i])])]
    ELSE [exit |-> 128, out |-> Fatal]

\* strconv.Itoa for a natural number
RECURSIVE Itoa(_)
Itoa(n) == IF n < 10 THEN <<Digits[n + 1]>> ELSE Itoa(n \div 10) \o <<Digits[(n % 10) + 1]>>

\* exec.ExitError.Error(): the text of the error of a command that exited
\* with a status other than 0.  It does not hold what the command printed.
ExitErrorText(exit) == <<"e", "x", "i", "t", " ", "s", "t", "a", "t", "u", "s", " ">> \o Itoa(exit)

\* fmt.Errorf("%s: %w", a, err)
Wrap(a, errText) == a \o <<":", " ">> \o errText

(***************************************************************************)
(* internal/git: the git collaborator                                      *)
(***************************************************************************)
\* Client.GetRepoName
ClientGetRepoName(w, dir) ==
    LET r == ExecRevParseToplevel(w, dir)
    IN IF r.exit # 0
       THEN [ok |-> FALSE, name |-> <<>>,
             err |-> Wrap(<<"n", "o", "t", " ", "i", "n", " ", "a", " ", "g", "i", "t", " ", "r", "e", "p", "o", "s", "i", "t", "o", "r", "y">>, ExitErrorText(r.exit))]
       ELSE [ok |-> TRUE, name |-> Base(TrimSpace(r.out)), err |-> <<>>]

ClientFetchBranchSwallowing(branch, envOk) == [ok |-> TRUE, err |-> <<>>]

\* Client.FetchBranch
ClientFetchBranch(branch, envOk) ==
    LET r == ExecFetch(branch, envOk)
    IN IF r.exit # 0
       THEN [ok |-> FALSE,
             err |-> Wrap(<<"f", "a", "i", "l", "e", "d", " ", "t", "o", " ", "f", "e", "t", "c", "h", " ", "b", "r", "a", "n", "c", "h">>, ExitErrorText(r.exit))]
       ELSE [ok |-> TRUE, err |-> <<>>]

\* Client.CreateWorktree
ClientCreateWorktree(w, dir, path, branchName, envOk) ==
    LET r == ExecWorktreeAdd(w, dir, path, branchName, envOk)
    IN IF r.exit # 0
       THEN [ok |-> FALSE, w |-> r.w, err |-> Wrap(r.out, ExitErrorText(r.exit))]
       ELSE [ok |-> TRUE, w |-> r.w, err |-> <<>>]

\* Client.RemoveWorktree
ClientRemoveWorktree(w, dir, path, envOk) ==
    LET r == ExecWorktreeRemove(w, dir, path, envOk)
    IN IF r.exit # 0
       THEN [ok |-> FALSE, w |-> r.w, err |-> Wrap(r.out, ExitErrorText(r.exit))]
       ELSE [ok |-> TRUE, w |-> r.w, err |-> <<>>]

\* Client.DeleteBranch
ClientDeleteBranch(w, branchName, envOk) ==
    LET r == ExecBranchDelete(w, branchName, envOk)
    IN IF r.exit # 0
       THEN [ok |-> FALSE, w |-> r.w, err |-> Wrap(r.out, ExitErrorText(r.exit))]
       ELSE [ok |-> TRUE, w |-> r.w, err |-> <<>>]

\* The loop of Client.ListWorktrees: one record per line of three fields or more
RECURSIVE ParseWorktreeLinesKeepingBrackets(_)
ParseWorktreeLinesKeepingBrackets(lines) ==
    IF lines = <<>> THEN <<>>
    ELSE LET parts == Fields(lines[1])
             rest  == ParseWorktreeLinesKeepingBrackets(Tail(lines))
         IN IF Len(parts) < 3 THEN rest
            ELSE <<[Path |-> parts[1], Branch |-> parts[3]]>> \o rest

RECURSIVE ParseWorktreeLines(_)
ParseWorktreeLines(lines) ==
    IF lines = <<>> THEN <<>>
    ELSE LET parts == Fields(lines[1])
             rest  == ParseWorktreeLines(Tail(lines))
         IN IF Len(parts) < 3 THEN rest
            ELSE <<[Path |-> parts[1], Branch |-> StrTrim(parts[3], {"[", "]"})]>>
                     \o rest

\* Client.ListWorktrees, lines 84-102: from the text git printed to the records
ParseWorktreeOutput(out) == ParseWorktreeLines(StrSplit(TrimSpace(out), "\n"))

\* Client.ListWorktrees
ClientListWorktrees(w, dir, envOk) ==
    LET r == ExecWorktreeList(w, dir, envOk)
    IN IF r.exit # 0
       THEN [ok |-> FALSE, worktrees |-> <<>>,
             err |-> Wrap(<<"f", "a", "i", "l", "e", "d", " ", "t", "o", " ", "l", "i", "s", "t", " ", "w", "o", "r", "k", "t", "r", "e", "e", "s">>, ExitErrorText(r.exit))]
       ELSE [ok |-> TRUE,
             worktrees |-> ParseWorktreeOutput(r.out),
             err |-> <<>>]

(***************************************************************************)
(* internal/worktree: the worktree manager.  An operation is written as    *)
(* the chain of its steps, each step receiving the result of the call      *)
(* before it, in the order of the code.                                    *)
(***************************************************************************)
\* One call the program made (a git command or a file system call) and
\* whether it succeeded.
Step(op, arg, ok) == [op |-> op, arg |-> arg, ok |-> ok]

\* One line written to standard output.
Line(kind, ticket, path, branch) ==
    [kind |-> kind, ticket |-> ticket, path |-> path, branch |-> branch]

\* What a manager operation returns: the world it leaves, its error ("" for
\* nil), the path it worked on, the calls it made and the lines it printed.
Res(w, err, path, steps, out) ==
    [w |-> w, err |-> err, path |-> path, steps |-> steps, out |-> out]

\* getWorktreeBasePath
GetWorktreeBasePath == Join(<<HomeDir, WorktreesName>>)

\* NewManager, line 205: the base path when the home directory is not known
FallbackBasePath == <<"~", "/">> \o WorktreesName

\* NewManager; homeOk: os.UserHomeDir finds the home directory
NewManager(homeOk) ==
    [basePath |-> IF homeOk THEN GetWorktreeBasePath ELSE FallbackBasePath]

\* A GetPath that leaves the repository's name out of the path.
GetPathInFlat(m, ticket, rn) ==
    IF ~rn.ok
    THEN [ok |-> FALSE, path |-> <<>>,
          steps |-> <<Step("git rev-parse", <<>>, FALSE)>>]
    ELSE [ok |-> TRUE, path |-> Join(<<m.basePath, ticket>>),
          steps |-> <<Step("git rev-parse", <<>>, TRUE)>>]

\* Manager.GetPath, lines 225-230: rn is what GetRepoName returned
GetPathIn(m, ticket, rn) ==
    IF ~rn.ok
    THEN [ok |-> FALSE, path |-> <<>>,
          steps |-> <<Step("git rev-parse", <<>>, FALSE)>>]
    ELSE [ok |-> TRUE, path |-> Join(<<m.basePath, rn.name, ticket>>),
          steps |-> <<Step("git rev-parse", <<>>, TRUE)>>]

\* Manager.GetPath
ManagerGetPath(m, w, dir, ticket) == GetPathIn(m, ticket, ClientGetRepoName(w, dir))

\* The check of line 248 turned around.
CreateTargetTakenInverted(st) == IsNotExist(st)

\* Manager.Create, the check of line 248: anything but "does not exist"
CreateTargetTaken(st) == ~IsNotExist(st)

\* A Create that does not look at the error of CreateWorktree.
CreateAddedIgnoringError(w, worktreeDir, steps, out, cr) ==
    Res(cr.w, "", worktreeDir,
        Append(steps, Step("git worktree add", worktreeDir, cr.ok)),
        out \o <<Line("success", <<>>, worktreeDir, <<>>),
                 Line("run-cd", <<>>, worktreeDir, <<>>)>>)

\* Manager.Create, lines 260-266: cr is what CreateWorktree returned
CreateAdded(w, worktreeDir, steps, out, cr) ==
    IF ~cr.ok
    THEN Res(w, "failed to create worktree", worktreeDir,
             Append(steps, Step("git worktree add", worktreeDir, FALSE)), out)
    ELSE Res(cr.w, "", worktreeDir,
             Append(steps, Step("git worktree add", worktreeDir, TRUE)),
             out \o <<Line("success", <<>>, worktreeDir, <<>>),
                      Line("run-cd", <<>>, worktreeDir, <<>>)>>)

\* A Create that gives up when the fetch fails.
CreateFetchedAborting(w, dir, ticket, baseBranch, env, worktreeDir, steps, fe) ==
    IF ~fe.ok
    THEN Res(w, "failed to create worktree", worktreeDir,
             Append(steps, Step("git fetch", baseBranch, FALSE)),
             <<Line("fetching", <<>>, <<>>, baseBranch)>>)
    ELSE CreateAdded(w, worktreeDir,
                     Append(steps, Step("git fetch", baseBranch, TRUE)),
                     <<Line("fetching", <<>>, <<>>, baseBranch),
                       Line("creating", ticket, <<>>, <<>>)>>,
                     ClientCreateWorktree(w, dir, worktreeDir, ticket, env.addOk))

\* Manager.Create, lines 253-260: fe is what FetchBranch returned.  A failed
\* fetch is a warning; Create goes on to the worktree.
CreateFetched(w, dir, ticket, baseBranch, env, worktreeDir, steps, fe) ==
    CreateAdded(w, worktreeDir,
                Append(steps, Step("git fetch", baseBranch, fe.ok)),
                <<Line("fetching", <<>>, <<>>, baseBranch)>>
                    \o (IF fe.ok THEN <<>>
                        ELSE <<Line("warning", <<>>, <<>>, baseBranch)>>)
                    \o <<Line("creating", ticket, <<>>, <<>>)>>,
                ClientCreateWorktree(w, dir, worktreeDir, ticket, env.addOk))

\* Manager.Create, lines 248-254: st is what os.Stat returned
CreateStatted(w, dir, ticket, baseBranch, env, worktreeDir, steps, st) ==
    IF CreateTargetTaken(st)
    THEN Res(w, "directory already exists", worktreeDir,
             Append(steps, Step("stat", worktreeDir, st = "ok")), <<>>)
    ELSE CreateFetched(w, dir, ticket, baseBranch, env, worktreeDir,
                       Append(steps, Step("stat", worktreeDir, st = "ok")),
                       ClientFetchBranch(baseBranch, env.fetchOk))

\* Manager.Create, lines 242-248: mk is what os.MkdirAll returned
CreateParentMade(w, dir, ticket, baseBranch, env, worktreeDir, steps, mk) ==
    IF ~mk.ok
    THEN Res(w, "failed to create directory", worktreeDir,
             Append(steps, Step("mkdirall", Dir(worktreeDir), FALSE)), <<>>)
    ELSE CreateStatted([w EXCEPT !.fs = mk.fs], dir, ticket, baseBranch, env,
                       worktreeDir,
                       Append(steps, Step("mkdirall", Dir(worktreeDir), TRUE)),
                       Stat(mk.fs, Abs(dir, worktreeDir)))

\* A Create that makes the target directory itself, not its parent.
CreateAtMakingTarget(w, dir, ticket, baseBranch, env, worktreeDir, steps) ==
    CreateParentMade(w, dir, ticket, baseBranch, env, worktreeDir, steps,
                     MkdirAll(w.fs, Abs(dir, worktreeDir)))

\* Manager.Create, lines 241-242: worktreeDir is the joined path
CreateAt(w, dir, ticket, baseBranch, env, worktreeDir, steps) ==
    CreateParentMade(w, dir, ticket, baseBranch, env, worktreeDir, steps,
                     MkdirAll(w.fs, Abs(dir, Dir(worktreeDir))))

\* Manager.Create, lines 235-241: rn is what GetRepoName returned
CreateIn(m, w, dir, ticket, baseBranch, env, rn) ==
    IF ~rn.ok
    THEN Res(w, "not in a git repository", <<>>,
             <<Step("git rev-parse", <<>>, FALSE)>>, <<>>)
    ELSE CreateAt(w, dir, ticket, baseBranch, env,
                  Join(<<m.basePath, rn.name, ticket>>),
                  <<Step("git rev-parse", <<>>, TRUE)>>)

\* Manager.Create
ManagerCreate(m, w, dir, ticket, baseBranch, env) ==
    CreateIn(m, w, dir, ticket, baseBranch, env, ClientGetRepoName(w, dir))

\* Manager.Delete, the check of line 277: only "does not exist"
DeleteTargetMissing(st) == IsNotExist(st)

\* A Delete that does not look at the error of DeleteBranch.
DeleteBranchDoneIgnoringError(w, ticket, path, steps, out, db) ==
    Res(db.w, "", path,
        Append(steps, Step("git branch -D", ticket, db.ok)),
        Append(out, Line("done", ticket, <<>>, <<>>)))

\* Manager.Delete, lines 290-297: db is what DeleteBranch returned
DeleteBranchDone(w, ticket, path, steps, out, db) ==
    IF ~db.ok
    THEN Res(w, "failed to delete branch", path,
             Append(steps, Step("git branch -D", ticket, FALSE)), out)
    ELSE Res(db.w, "", path,
             Append(steps, Step("git branch -D", ticket, TRUE)),
             Append(out, Line("done", ticket, <<>>, <<>>)))

\* A Delete that does not look at the error of RemoveWorktree.
DeleteRemovedIgnoringError(w, ticket, deleteBranch, env, path, steps, rm) ==
    Res(rm.w, "", path,
        Append(steps, Step("git worktree remove", path, rm.ok)),
        <<Line("removing", ticket, <<>>, <<>>),
          Line("done", ticket, <<>>, <<>>)>>)

\* A Delete that goes on to the branch when the removal failed.
DeleteRemovedThenBranchAnyway(w, ticket, deleteBranch, env, path, steps, rm) ==
    IF deleteBranch
    THEN DeleteBranchDone(rm.w, ticket, path,
                          Append(steps, Step("git worktree remove", path, rm.ok)),
                          <<Line("removing", ticket, <<>>, <<>>),
                            Line("deleting-branch", ticket, <<>>, <<>>)>>,
                          ClientDeleteBranch(rm.w, ticket, env.branchOk))
    ELSE IF ~rm.ok
    THEN Res(w, "failed to remove worktree", path,
             Append(steps, Step("git worktree remove", path, FALSE)),
             <<Line("removing", ticket, <<>>, <<>>)>>)
    ELSE Res(rm.w, "", path,
             Append(steps, Step("git worktree remove", path, TRUE)),
             <<Line("removing", ticket, <<>>, <<>>),
               Line("done", ticket, <<>>, <<>>)>>)

\* A Delete that puts the worktree back when the branch deletion fails.
DeleteRemovedRollingBack(w, ticket, deleteBranch, env, path, steps, rm) ==
    IF ~rm.ok
    THEN Res(w, "failed to remove worktree", path,
             Append(steps, Step("git worktree remove", path, FALSE)),
             <<Line("removing", ticket, <<>>, <<>>)>>)
    ELSE IF deleteBranch
    THEN LET r == DeleteBranchDone(rm.w, ticket, path,
                      Append(steps, Step("git worktree remove", path, TRUE)),
                      <<Line("removing", ticket, <<>>, <<>>),
                        Line("deleting-branch", ticket, <<>>, <<>>)>>,
                      ClientDeleteBranch(rm.w, ticket, env.branchOk))
         IN IF r.err # "" THEN [r EXCEPT !.w = w] ELSE r
    ELSE Res(rm.w, "", path,
             Append(steps, Step("git worktree remove", path, TRUE)),
             <<Line("removing", ticket, <<>>, <<>>),
               Line("done", ticket, <<>>, <<>>)>>)

\* Manager.Delete, lines 283-297: rm is what RemoveWorktree returned
DeleteRemoved(w, ticket, deleteBranch, env, path, steps, rm) ==
    IF ~rm.ok
    THEN Res(w, "failed to remove worktree", path,
             Append(steps, Step("git worktree remove", path, FALSE)),
             <<Line("removing", ticket, <<>>, <<>>)>>)
    ELSE IF deleteBranch
    THEN DeleteBranchDone(rm.w, ticket, path,
                          Append(steps, Step("git worktree remove", path, TRUE)),
                          <<Line("removing", ticket, <<>>, <<>>),
                            Line("deleting-branch", ticket, <<>>, <<>>)>>,
                          ClientDeleteBranch(rm.w, ticket, env.branchOk))
    ELSE Res(rm.w, "", path,
             Append(steps, Step("git worktree remove", path, TRUE)),
             <<Line("removing", ticket, <<>>, <<>>),
               Line("done", ticket, <<>>, <<>>)>>)

\* A Delete that removes whatever is at the path itself, without git.
DeleteStattedRemovingAll(w, dir, ticket, deleteBranch, env, path, steps, st) ==
    IF DeleteTargetMissing(st)
    THEN Res(w, "worktree not found", path,
             Append(steps, Step("stat", path, st = "ok")), <<>>)
    ELSE Res([w EXCEPT !.fs = RemoveTree(w.fs, Abs(dir, path))], "", path,
             Append(steps, Step("stat", path, st = "ok")),
             <<Line("removing", ticket, <<>>, <<>>),
               Line("done", ticket, <<>>, <<>>)>>)

\* Manager.Delete, lines 277-283: st is what os.Stat returned
DeleteStatted(w, dir, ticket, deleteBranch, env, path, steps, st) ==
    IF DeleteTargetMissing(st)
    THEN Res(w, "worktree not found", path,
             Append(steps, Step("stat", path, st = "ok")), <<>>)
    ELSE DeleteRemoved(w, ticket, deleteBranch, env, path,
                       Append(steps, Step("stat", path, st = "ok")),
                       ClientRemoveWorktree(w, dir, path, env.removeOk))

\* Manager.Delete, lines 271-277: gp is what GetPath returned
DeleteAt(w, dir, ticket, deleteBranch, env, gp) ==
    IF ~gp.ok THEN Res(w, "not in a git repository", <<>>, gp.steps, <<>>)
    ELSE DeleteStatted(w, dir, ticket, deleteBranch, env, gp.path, gp.steps,
                       Stat(w.fs, Abs(dir, gp.path)))

\* Manager.Delete
ManagerDelete(m, w, dir, ticket, deleteBranch, env) ==
    DeleteAt(w, dir, ticket, deleteBranch, env, ManagerGetPath(m, w, dir, ticket))

Detached == <<"d", "e", "t", "a", "c", "h", "e", "d">>

\* Manager.List, lines 313-317: the map path -> branch; a later record of
\* the same path replaces an earlier one.
WorktreeMap(recs) ==
    [p \in {recs[i].Path : i \in 1..Len(recs)} |->
        recs[MaxOf({i \in 1..Len(recs) : recs[i].Path = p})].Branch]

\* Manager.List, lines 347-351: the branch shown for a directory
BranchShown(worktreeMap, path) ==
    IF path \in DOMAIN worktreeMap THEN worktreeMap[path] ELSE Detached

\* Manager.List, lines 340-356: one line per entry that is a directory
RECURSIVE ListEntries(_, _, _)
ListEntries(entries, repoPath, worktreeMap) ==
    IF entries = <<>> THEN <<>>
    ELSE IF ~entries[1].isDir THEN ListEntries(Tail(entries), repoPath, worktreeMap)
    ELSE <<Line("entry", entries[1].name, Join(<<repoPath, entries[1].name>>),
                BranchShown(worktreeMap, Join(<<repoPath, entries[1].name>>)))>>
             \o ListEntries(Tail(entries), repoPath, worktreeMap)

\* A List that prints only the header for a directory without entries.
ListReadSilentWhenEmpty(w, repoName, repoPath, worktreeMap, steps, rd) ==
    IF ~rd.ok
    THEN Res(w, "failed to read worktree directory", repoPath,
             Append(steps, Step("readdir", repoPath, FALSE)),
             <<Line("header", repoName, <<>>, <<>>)>>)
    ELSE Res(w, "", repoPath, Append(steps, Step("readdir", repoPath, TRUE)),
             <<Line("header", repoName, <<>>, <<>>)>>
                 \o ListEntries(rd.entries, repoPath, worktreeMap))

\* Manager.List, lines 330-358: rd is what os.ReadDir returned
ListRead(w, repoName, repoPath, worktreeMap, steps, rd) ==
    IF ~rd.ok
    THEN Res(w, "failed to read worktree directory", repoPath,
             Append(steps, Step("readdir", repoPath, FALSE)),
             <<Line("header", repoName, <<>>, <<>>)>>)
    ELSE IF Len(rd.entries) = 0
    THEN Res(w, "", repoPath, Append(steps, Step("readdir", repoPath, TRUE)),
             <<Line("header", repoName, <<>>, <<>>),
               Line("none-found", <<>>, <<>>, <<>>)>>)
    ELSE Res(w, "", repoPath, Append(steps, Step("readdir", repoPath, TRUE)),
             <<Line("header", repoName, <<>>, <<>>)>>
                 \o ListEntries(rd.entries, repoPath, worktreeMap))

\* A List that makes the repository's directory when it is missing.
ListStattedMakingDir(w, dir, repoName, repoPath, worktreeMap, steps, st) ==
    IF IsNotExist(st)
    THEN Res([w EXCEPT !.fs = MkdirAll(w.fs, Abs(dir, repoPath)).fs], "", repoPath,
             Append(steps, Step("stat", repoPath, FALSE)),
             <<Line("none-for-repo", repoName, <<>>, <<>>)>>)
    ELSE ListRead(w, repoName, repoPath, worktreeMap,
                  Append(steps, Step("stat", repoPath, st = "ok")),
                  ReadDir(w.fs, Abs(dir, repoPath)))

\* Manager.List, lines 322-330: st is what os.Stat returned
ListStatted(w, dir, repoName, repoPath, worktreeMap, steps, st) ==
    IF IsNotExist(st)
    THEN Res(w, "", repoPath, Append(steps, Step("stat", repoPath, FALSE)),
             <<Line("none-for-repo", repoName, <<>>, <<>>)>>)
    ELSE ListRead(w, repoName, repoPath, worktreeMap,
                  Append(steps, Step("stat", repoPath, st = "ok")),
                  ReadDir(w.fs, Abs(dir, repoPath)))

\* Manager.List, lines 308-322: lw is what ListWorktrees returned
ListListed(w, dir, repoName, repoPath, steps, lw) ==
    IF ~lw.ok
    THEN Res(w, "failed to list worktrees", repoPath,
             Append(steps, Step("git worktree list", <<>>, FALSE)), <<>>)
    ELSE ListStatted(w, dir, repoName, repoPath, WorktreeMap(lw.worktrees),
                     Append(steps, Step("git worktree list", <<>>, TRUE)),
                     Stat(w.fs, Abs(dir, repoPath)))

\* Manager.List, lines 302-319: rn is what GetRepoName returned
ListIn(m, w, dir, env, rn) ==
    IF ~rn.ok
    THEN Res(w, "not in a git repository", <<>>,
             <<Step("git rev-parse", <<>>, FALSE)>>, <<>>)
    ELSE ListListed(w, dir, rn.name, Join(<<m.basePath, rn.name>>),
                    <<Step("git rev-parse", <<>>, TRUE)>>,
                    ClientListWorktrees(w, dir, env.listOk))

\* Manager.List
ManagerList(m, w, dir, env) == ListIn(m, w, dir, env, ClientGetRepoName(w, dir))

(***************************************************************************)
(* cmd/go-worktree: the command line                                       *)
(***************************************************************************)
CmdCreate  == <<"c", "r", "e", "a", "t", "e">>
CmdDelete  == <<"d", "e", "l", "e", "t", "e">>
CmdList    == <<"l", "i", "s", "t">>
CmdCD      == <<"c", "d">>
WordNew    == <<"n", "e", "w">>
WordAdd    == <<"a", "d", "d">>
WordRm     == <<"r", "m">>
WordCleanup == <<"c", "l", "e", "a", "n", "u", "p">>
WordRemove == <<"r", "e", "m", "o", "v", "e">>
WordLs     == <<"l", "s">>
WordSwitch == <<"s", "w", "i", "t", "c", "h">>
WordHelp   == <<"h", "e", "l", "p">>
WordVersion == <<"v", "e", "r", "s", "i", "o", "n">>
WordStatus == <<"s", "t", "a", "t", "u", "s">>      \* not a command
FlagD      == <<"-", "d">>
FlagBase   == <<"-", "b", "a", "s", "e">>
FlagX      == <<"-", "x">>                          \* not a flag of any command
TextTrue   == <<"t", "r", "u", "e">>
TextFalse  == <<"f", "a", "l", "s", "e">>

\* The table with one entry wrong: rm listed under list.
commandAliasesRmAsList ==
    (WordNew :> CmdCreate) @@ (WordAdd :> CmdCreate) @@ (WordRm :> CmdList)
    @@ (WordCleanup :> CmdDelete) @@ (WordRemove :> CmdDelete)
    @@ (WordLs :> CmdList) @@ (WordSwitch :> CmdCD)

\* commandAliases
commandAliases ==
    (WordNew :> CmdCreate) @@ (WordAdd :> CmdCreate) @@ (WordRm :> CmdDelete)
    @@ (WordCleanup :> CmdDelete) @@ (WordRemove :> CmdDelete)
    @@ (WordLs :> CmdList) @@ (WordSwitch :> CmdCD)

\* strconv.ParseBool, as the flag package applies it to -flag=value
ParseBool(v) ==
    IF v \in {<<"1">>, <<"t">>, <<"T">>, TextTrue} THEN [ok |-> TRUE, text |-> TextTrue]
    ELSE IF v \in {<<"0">>, <<"f">>, <<"F">>, TextFalse}
    THEN [ok |-> TRUE, text |-> TextFalse]
    ELSE [ok |-> FALSE, text |-> v]

\* flag.FlagSet.Parse: flags are read up to the first argument that is not a
\* flag (or up to "--"); everything from there on is positional.  formal
\* maps a flag's name to "bool" or "string", values holds the flags' values.
RECURSIVE FlagParse(_, _, _)
FlagParse(formal, values, args) ==
    IF args = <<>> THEN [err |-> "", values |-> values, rest |-> args]
    ELSE
    LET s == args[1]
    IN IF Len(s) < 2 \/ s[1] # "-" THEN [err |-> "", values |-> values, rest |-> args]
       ELSE
       LET numMinuses == IF s[2] = "-" THEN 2 ELSE 1
           name0 == SubSeq(s, numMinuses + 1, Len(s))
       IN IF numMinuses = 2 /\ Len(s) = 2
          THEN [err |-> "", values |-> values, rest |-> Tail(args)]
          ELSE IF name0 = <<>> \/ name0[1] = "-" \/ name0[1] = "="
          THEN [err |-> "bad flag syntax", values |-> values, rest |-> args]
          ELSE
          LET eq == IndexOf(name0, "=")
              hasValue == eq # 0
              name == IF hasValue THEN SubSeq(name0, 1, eq - 1) ELSE name0
              value == IF hasValue THEN SubSeq(name0, eq + 1, Len(name0)) ELSE <<>>
              after == Tail(args)
          IN IF name \notin DOMAIN formal
             THEN [err |-> IF name \in {WordHelp, <<"h">>} THEN "help"
                           ELSE "flag provided but not defined",
                   values |-> values, rest |-> after]
             ELSE IF formal[name] = "bool"
             THEN IF ~hasValue
                  THEN FlagParse(formal, [values EXCEPT ![name] = TextTrue], after)
                  ELSE IF ParseBool(value).ok
                  THEN FlagParse(formal,
                                 [values EXCEPT ![name] = ParseBool(value).text], after)
                  ELSE [err |-> "invalid boolean value", values |-> values,
                        rest |-> after]
             ELSE IF hasValue
             THEN FlagParse(formal, [values EXCEPT ![name] = value], after)
             ELSE IF after # <<>>
             THEN FlagParse(formal, [values EXCEPT ![name] = after[1]], Tail(after))
             ELSE [err |-> "flag needs an argument", values |-> values, rest |-> after]

\* flag.ExitOnError: os.Exit(0) after -help, os.Exit(2) after any other error
FlagErrorExit(err) == IF err = "help" THEN 0 ELSE 2

\* What one run of the program leaves: the world, and the record of the run.
\* A handler that got an error from the manager prints it and exits 1.
Run(w, handler, ticket, base, flag, res) ==
    [w |-> res.w,
     rec |-> [handler |-> handler, ticket |-> ticket, base |-> base, flag |-> flag,
              exit |-> IF res.err # "" THEN 1 ELSE 0, err |-> res.err,
              path |-> res.path, steps |-> res.steps, out |-> res.out]]

\* A run that ends before any manager operation is called.
Early(w, handler, exit, err, out) ==
    [w |-> w,
     rec |-> [handler |-> handler, ticket |-> <<>>, base |-> <<>>, flag |-> FALSE,
              exit |-> exit, err |-> err, path |-> <<>>, steps |-> <<>>,
              out |-> out]]

\* A handleCreate that never looks at the second positional argument.
CreateParsedFlagOnly(fp, w, dir, env) ==
    IF fp.err # "" THEN Early(w, "create", FlagErrorExit(fp.err), fp.err, <<>>)
    ELSE IF Len(fp.rest) < 1 THEN Early(w, "create", 1, "Ticket ID required", <<>>)
    ELSE Run(w, "create", fp.rest[1], fp.values[<<"b", "a", "s", "e">>], FALSE,
             ManagerCreate(NewManager(env.homeOk), w, dir, fp.rest[1],
                           fp.values[<<"b", "a", "s", "e">>], env))

\* handleCreate, lines 100-122: fp is what createCmd.Parse left
CreateParsed(fp, w, dir, env) ==
    IF fp.err # "" THEN Early(w, "create", FlagErrorExit(fp.err), fp.err, <<>>)
    ELSE IF Len(fp.rest) < 1 THEN Early(w, "create", 1, "Ticket ID required", <<>>)
    ELSE LET ticket == fp.rest[1]
             baseBranch == IF Len(fp.rest) > 1 THEN fp.rest[2]
                           ELSE fp.values[<<"b", "a", "s", "e">>]
         IN Run(w, "create", ticket, baseBranch, FALSE,
                ManagerCreate(NewManager(env.homeOk), w, dir, ticket, baseBranch, env))

\* handleCreate; args is os.Args[2:]
handleCreate(args, w, dir, env) ==
    CreateParsed(FlagParse((<<"b", "a", "s", "e">> :> "string"),
                           (<<"b", "a", "s", "e">> :> MainBranch), args),
                 w, dir, env)

\* handleDelete, lines 131-148: fp is what deleteCmd.Parse left
DeleteParsed(fp, w, dir, env) ==
    IF fp.err # "" THEN Early(w, "delete", FlagErrorExit(fp.err), fp.err, <<>>)
    ELSE IF Len(fp.rest) < 1 THEN Early(w, "delete", 1, "Ticket ID required", <<>>)
    ELSE LET ticket == fp.rest[1]
             deleteBranch == fp.values[<<"d">>] = TextTrue
         IN Run(w, "delete", ticket, <<>>, deleteBranch,
                ManagerDelete(NewManager(env.homeOk), w, dir, ticket, deleteBranch, env))

\* handleDelete; args is os.Args[2:]
handleDelete(args, w, dir, env) ==
    DeleteParsed(FlagParse((<<"d">> :> "bool"), (<<"d">> :> TextFalse), args),
                 w, dir, env)

\* handleList
handleList(w, dir, env) ==
    Run(w, "list", <<>>, <<>>, FALSE, ManagerList(NewManager(env.homeOk), w, dir, env))

\* A handleCD that refuses a path at which nothing exists.
CDPathOnlyExisting(w, ticket, gp) ==
    IF ~gp.ok
    THEN Run(w, "cd", ticket, <<>>, FALSE,
             Res(w, "not in a git repository", <<>>, gp.steps, <<>>))
    ELSE IF gp.path \notin DOMAIN w.fs
    THEN Run(w, "cd", ticket, <<>>, FALSE,
             Res(w, "worktree not found", gp.path, gp.steps, <<>>))
    ELSE Run(w, "cd", ticket, <<>>, FALSE,
             Res(w, "", gp.path, gp.steps, <<Line("cd", <<>>, gp.path, <<>>)>>))

\* handleCD, lines 169-178: gp is what GetPath returned
CDPath(w, ticket, gp) ==
    IF ~gp.ok
    THEN Run(w, "cd", ticket, <<>>, FALSE,
             Res(w, "not in a git repository", <<>>, gp.steps, <<>>))
    ELSE Run(w, "cd", ticket, <<>>, FALSE,
             Res(w, "", gp.path, gp.steps, <<Line("cd", <<>>, gp.path, <<>>)>>))

\* handleCD; args is os.Args[2:]
handleCD(args, w, dir, env) ==
    IF Len(args) < 1 THEN Early(w, "cd", 1, "Ticket ID required", <<>>)
    ELSE CDPath(w, args[1], ManagerGetPath(NewManager(env.homeOk), w, dir, args[1]))

\* main, lines 62-75: the switch on the command after the aliases
Route(cmd, args, w, dir, env) ==
    IF cmd = CmdCreate THEN handleCreate(args, w, dir, env)
    ELSE IF cmd = CmdDelete THEN handleDelete(args, w, dir, env)
    ELSE IF cmd = CmdList THEN handleList(w, dir, env)
    ELSE IF cmd = CmdCD THEN handleCD(args, w, dir, env)
    ELSE Early(w, "unknown", 1, "Unknown command",
               <<Line("usage", <<>>, <<>>, <<>>)>>)

\* main; argv is os.Args[1:]
Main(argv, w, dir, env) ==
    IF Len(argv) < 1 THEN Early(w, "usage", 0, "", <<Line("usage", <<>>, <<>>, <<>>)>>)
    ELSE IF argv[1] \in {WordHelp, <<"-", "-">> \o WordHelp, <<"-", "h">>}
    THEN Early(w, "usage", 0, "", <<Line("usage", <<>>, <<>>, <<>>)>>)
    ELSE IF argv[1] \in {WordVersion, <<"-", "-">> \o WordVersion, <<"-", "v">>}
    THEN Early(w, "version", 0, "", <<Line("version", <<>>, <<>>, <<>>)>>)
    ELSE Route(IF argv[1] \in DOMAIN commandAliases THEN commandAliases[argv[1]]
               ELSE argv[1],
               Tail(argv), w, dir, env)

(***************************************************************************)
(* The state machine: one action per invocation of the program, and the    *)
(* moves of its environment between invocations.                           *)
(***************************************************************************)
World == [fs |-> fs, wts |-> worktrees, brs |-> branches]

\* Outcomes of the external commands that the model does not decide.
AllOk == [fetchOk |-> TRUE, addOk |-> TRUE, removeOk |-> TRUE, branchOk |-> TRUE,
          listOk |-> TRUE, homeOk |-> TRUE]
CreateEnvs == {[AllOk EXCEPT !.fetchOk = f, !.addOk = a] : f \in BOOLEAN, a \in BOOLEAN}
DeleteEnvs == {[AllOk EXCEPT !.removeOk = r, !.branchOk = b] : r \in BOOLEAN, b \in BOOLEAN}
ListEnvs   == {[AllOk EXCEPT !.listOk = l] : l \in BOOLEAN}

\* The command lines tried (os.Args[1:]).
CreateArgvs ==
    {<<CmdCreate, t>> : t \in Tickets}
    \cup {<<CmdCreate, t, DevelopBranch>> : t \in Tickets}

DeleteArgvs ==
    {<<CmdDelete, t>> : t \in Tickets}
    \cup {<<CmdDelete, t, FlagD>> : t \in Tickets}
    \cup {<<CmdDelete, FlagD, t>> : t \in Tickets}

ListArgvs == {<<CmdList>>}

CDArgvs == {<<CmdCD>>} \cup {<<CmdCD, t>> : t \in Tickets}

UsageArgvs == {<<>>, <<WordHelp>>}

VersionArgvs == {<<WordVersion>>}

UnknownArgvs == {<<WordStatus>>}

\* The record while no command has run since the prompt returned.
Idle ==
    [argv |-> <<>>, cwd |-> <<>>, handler |-> "idle", ticket |-> <<>>, base |-> <<>>,
     flag |-> FALSE, exit |-> 0, err |-> "", path |-> <<>>, steps |-> <<>>,
     out |-> <<>>]

AtPrompt == last.handler = "idle"

Init ==
    /\ \E top \in MainTops :
         /\ worktrees = <<[path |-> top, branch |-> MainBranch]>>
         /\ cwd = top
         /\ fs = (Root :> "dir") @@ (HomeDir :> "dir") @@ (top :> "dir")
                  @@ (OutsideDir :> "dir")
    /\ branches = (MainBranch :> 0) @@ (DevelopBranch :> 1)
    /\ ext = 0
    /\ last = Idle

\* One run of the program with the command line argv, from start to exit.
Invoke(argv, env) ==
    /\ \E r \in {Main(argv, World, cwd, env)} :
         /\ fs' = r.w.fs
         /\ worktrees' = r.w.wts
         /\ branches' = r.w.brs
         /\ last' = [argv |-> argv, cwd |-> cwd] @@ r.rec
    /\ UNCHANGED <<cwd, ext>>

Create ==
    \E argv \in CreateArgvs, env \in CreateEnvs :
        /\ AtPrompt
        /\ Invoke(argv, env)

Delete ==
    \E argv \in DeleteArgvs, env \in DeleteEnvs :
        /\ AtPrompt
        /\ Invoke(argv, env)

List ==
    \E argv \in ListArgvs, env \in ListEnvs :
        /\ AtPrompt
        /\ Invoke(argv, env)

CD ==
    \E argv \in CDArgvs :
        /\ AtPrompt
        /\ Invoke(argv, AllOk)

Usage ==
    \E argv \in UsageArgvs :
        /\ AtPrompt
        /\ Invoke(argv, AllOk)

Version ==
    \E argv \in VersionArgvs :
        /\ AtPrompt
        /\ Invoke(argv, AllOk)

Unknown ==
    \E argv \in UnknownArgvs :
        /\ AtPrompt
        /\ Invoke(argv, AllOk)

\* The user has read the result; the shell waits for the next command.
Prompt ==
    /\ ~AtPrompt
    /\ last' = Idle
    /\ UNCHANGED <<fs, worktrees, branches, cwd, ext>>

\* The user changes directory: to the main checkout, into the worktree of a
\* ticket of EnterTickets, or out of the repository.
EnterTickets == {T1}

Chdir ==
    \E d \in {p \in WorktreePaths(World) : p = worktrees[1].path \/ Base(p) \in EnterTickets}
             \cup {OutsideDir} :
        /\ AtPrompt
        /\ d # cwd
        /\ cwd' = d
        /\ UNCHANGED <<fs, worktrees, branches, ext, last>>

\* The places the user touches by hand: the base path, the directory of the
\* repository's worktrees and, in it, the directories of ExtTickets.
ExtTickets == {T2}
RepoDir == Join(<<GetWorktreeBasePath, Base(worktrees[1].path)>>)
ExtPaths ==
    {GetWorktreeBasePath, RepoDir} \cup {Join(<<RepoDir, t>>) : t \in ExtTickets}

\* mkdir -p
ExtMkdir ==
    \E p \in ExtPaths :
        /\ AtPrompt
        /\ ext < MaxExt
        /\ p \notin DOMAIN fs
        /\ MkdirAll(fs, p).ok
        /\ fs' = MkdirAll(fs, p).fs
        /\ ext' = ext + 1
        /\ UNCHANGED <<worktrees, branches, cwd, last>>

\* touch: a regular file, in a directory that exists or is made for it
ExtTouch ==
    \E p \in ExtPaths :
        /\ AtPrompt
        /\ ext < MaxExt
        /\ p \notin DOMAIN fs
        /\ MkdirAll(fs, Dir(p)).ok
        /\ fs' = MkdirAll(fs, Dir(p)).fs @@ (p :> "file")
        /\ ext' = ext + 1
        /\ UNCHANGED <<worktrees, branches, cwd, last>>

\* rm / rmdir of something that is no working tree and holds nothing
ExtRemove ==
    \E p \in ExtPaths :
        /\ AtPrompt
        /\ ext < MaxExt
        /\ p \in DOMAIN fs
        /\ p \notin WorktreePaths(World)
        /\ \A q \in DOMAIN fs : ~IsUnder(q, p)
        /\ fs' = RemoveTree(fs, p)
        /\ ext' = ext + 1
        /\ UNCHANGED <<worktrees, branches, cwd, last>>

Next ==
    \/ Create
    \/ Delete
    \/ List
    \/ CD
    \/ Usage
    \/ Version
    \/ Unknown
    \/ Prompt
    \/ Chdir
    \/ ExtMkdir
    \/ ExtTouch
    \/ ExtRemove

Spec == Init /\ [][Next]_vars

(***************************************************************************)
(* The command line on its own: a second state machine, in which a command *)
(* line is typed at the prompt of a fresh repository and run once.         *)
(***************************************************************************)
\* How many words may follow the command.
MaxArgs == 4

FlagBaseDevelop == FlagBase \o <<"=">> \o DevelopBranch

\* The words tried as the command.
CommandWords ==
    {CmdCreate, WordAdd, WordNew, CmdDelete, WordRm, WordCleanup, WordRemove,
     CmdList, WordLs, CmdCD, WordSwitch,
     WordHelp, <<"-", "-">> \o WordHelp, <<"-", "h">>,
     WordVersion, <<"-", "-">> \o WordVersion, <<"-", "v">>,
     WordStatus}

\* The words tried after the command.
ArgWords == {T1, DevelopBranch, FlagD, FlagBase, FlagBaseDevelop}

SeqsUpTo(S, n) == UNION {[1..k -> S] : k \in 0..n}

\* os.Args[1:] as typed
TypedArgvs ==
    {<<>>} \cup {<<c>> \o a : c \in CommandWords, a \in SeqsUpTo(ArgWords, MaxArgs)}

\* The record while a command line is typed and not yet run.
Typed(argv) == [Idle EXCEPT !.handler = "typed", !.argv = argv]

CliInit ==
    /\ \E top \in MainTops :
         /\ worktrees = <<[path |-> top, branch |-> MainBranch]>>
         /\ cwd = top
         /\ fs = (Root :> "dir") @@ (HomeDir :> "dir") @@ (top :> "dir")
                  @@ (OutsideDir :> "dir")
    /\ branches = (MainBranch :> 0) @@ (DevelopBranch :> 1)
    /\ ext = 0
    /\ \E argv \in TypedArgvs : last = Typed(argv)

\* The typed command line is run, git answering every command.
RunTyped ==
    /\ last.handler = "typed"
    /\ Invoke(last.argv, AllOk)

CliNext == RunTyped

CliSpec == CliInit /\ [][CliNext]_vars

(***************************************************************************)
(* Properties.  `last` is the run that has just ended: last.handler is     *)
(* "idle" at the prompt and the command's name right after a run, when the *)
(* unprimed world is the one the run left.  In an action formula the       *)
(* unprimed world is the one the run started in and last' the run.         *)
(***************************************************************************)
\* The operations a run performed.
StepOps(steps) == {steps[i].op : i \in 1..Len(steps)}

\* The lines of kind "entry" among the lines printed.
EntryLines(out) == {out[i] : i \in {j \in 1..Len(out) : out[j].kind = "entry"}}

\* base/repo/ticket written out, separator by separator.
PathText(base, repo, ticket) == base \o <<"/">> \o repo \o <<"/">> \o ticket

\* What get-path answers for a ticket, asked in directory dir, now.
Resolved(dir, ticket) == ManagerGetPath(NewManager(TRUE), World, dir, ticket)

\* What list prints, asked in the current directory, now, with git working.
ListedNow == ManagerList(NewManager(TRUE), World, cwd, AllOk)

\* The base branch a create command line names: the third word, else main.
BaseOfArgv(argv) == IF Len(argv) >= 3 THEN argv[3] ELSE MainBranch

\* C1: a create whose target basePath/<repo>/<ticket> (the path get-path
\* resolves where the command runs) already holds something, a directory or
\* a file, fails with "directory already exists" and exit status 1; neither
\* git fetch nor git worktree add is issued; git's worktrees and branches are
\* the same after the run as before.
C1_CreateFailsOnExistingTarget ==
    [][(/\ last'.handler = "create"
        /\ Len(last'.argv) >= 2
        /\ Resolved(cwd, last'.argv[2]).ok
        /\ Resolved(cwd, last'.argv[2]).path \in DOMAIN fs)
       => (/\ last'.err = "directory already exists"
           /\ last'.exit = 1
           /\ "git fetch" \notin StepOps(last'.steps)
           /\ "git worktree add" \notin StepOps(last'.steps)
           /\ worktrees' = worktrees
           /\ branches' = branches)]_vars

\* C1, reached: a create has just failed on a target that exists.
C1_Witness ==
    /\ last.handler = "create"
    /\ last.err = "directory already exists"
    /\ last.path \in DOMAIN fs

\* C2: a delete whose target basePath/<repo>/<ticket> holds nothing fails
\* with "worktree for ticket ... not found"; neither git worktree remove nor
\* git branch -D is issued, with or without -d; git's worktrees and branches
\* are unchanged.
C2_DeleteFailsOnMissingTarget ==
    [][(/\ last'.handler = "delete"
        /\ last'.ticket # <<>>
        /\ Resolved(cwd, last'.ticket).ok
        /\ Resolved(cwd, last'.ticket).path \notin DOMAIN fs)
       => (/\ last'.err = "worktree not found"
           /\ "git worktree remove" \notin StepOps(last'.steps)
           /\ "git branch -D" \notin StepOps(last'.steps)
           /\ worktrees' = worktrees
           /\ branches' = branches)]_vars

\* C3: `delete TICKET -d`, run on an existing worktree and ending without
\* error, leaves neither the worktree nor the branch TICKET; `delete TICKET`
\* leaves no worktree and keeps the branch.
C3_DeleteFlagAfterTicket ==
    [][(/\ last'.handler = "delete"
        /\ last'.err = ""
        /\ Len(last'.argv) >= 2
        /\ last'.argv[2] \in Tickets
        /\ Resolved(cwd, last'.argv[2]).ok
        /\ Resolved(cwd, last'.argv[2]).path \in WorktreePaths(World))
       => (/\ Resolved(cwd, last'.argv[2]).path
                 \notin {worktrees'[i].path : i \in 1..Len(worktrees')}
           /\ last'.argv = <<CmdDelete, last'.argv[2], FlagD>>
                 => last'.argv[2] \notin DOMAIN branches'
           /\ last'.argv = <<CmdDelete, last'.argv[2]>>
                 => last'.argv[2] \in DOMAIN branches')]_vars

\* C4: after a create that ended without error, the new branch TICKET is at
\* the commit the base branch (the third word of the command line, else
\* main) was at, whatever is checked out where the command ran.
C4_BranchStartsAtBase ==
    [][(/\ last'.handler = "create"
        /\ last'.err = ""
        /\ BaseOfArgv(last'.argv) \in DOMAIN branches)
       => (/\ last'.argv[2] \in DOMAIN branches'
           /\ branches'[last'.argv[2]] = branches[BaseOfArgv(last'.argv)])]_vars

\* C5: right after a create of T that ended without error, get-path(T) is a
\* directory, git has a worktree at exactly that path, and list prints an
\* entry for T with that path.
C5_CreateThenPresent ==
    (last.handler = "create" /\ last.err = "")
    => (/\ Resolved(cwd, last.ticket).ok
        /\ Resolved(cwd, last.ticket).path \in DOMAIN fs
        /\ fs[Resolved(cwd, last.ticket).path] = "dir"
        /\ Cardinality({i \in 1..Len(worktrees) :
                           worktrees[i].path = Resolved(cwd, last.ticket).path}) = 1
        /\ ListedNow.err = ""
        /\ \E e \in EntryLines(ListedNow.out) :
              /\ e.ticket = last.ticket
              /\ e.path = Resolved(cwd, last.ticket).path)

\* C5, reached: a create has just ended without error.
C5_Witness ==
    /\ last.handler = "create"
    /\ last.err = ""
    /\ last.path \in WorktreePaths(World)

\* C6: right after a delete of T that ended without error, with or without
\* -d, nothing is at get-path(T), git has no worktree at that path, and list
\* prints no entry for T.
C6_DeleteThenAbsent ==
    (last.handler = "delete" /\ last.err = "")
    => (/\ Resolved(cwd, last.ticket).ok
        /\ Resolved(cwd, last.ticket).path \notin DOMAIN fs
        /\ Resolved(cwd, last.ticket).path \notin WorktreePaths(World)
        /\ \A e \in EntryLines(ListedNow.out) : e.ticket # last.ticket)

\* C6, reached: a delete has just ended without error, leaving another
\* worktree of the repository in place.
C6_Witness ==
    /\ last.handler = "delete"
    /\ last.err = ""
    /\ "git worktree remove" \in StepOps(last.steps)
    /\ Len(worktrees) >= 2

\* C7: a list that ended without error printed one entry for every directory
\* directly under basePath/<repo>, labelled "detached" exactly when the
\* directory's full path is not a path of git's worktrees, and printed no
\* entry for anything that is not such a directory.
C7_DetachedExactly ==
    (/\ last.handler = "list"
     /\ last.err = ""
     /\ ClientGetRepoName(World, cwd).ok
     /\ Join(<<GetWorktreeBasePath, ClientGetRepoName(World, cwd).name>>) \in DOMAIN fs)
    => (/\ \A q \in {p \in DOMAIN fs :
                       /\ fs[p] = "dir"
                       /\ p # Root
                       /\ Dir(p) = Join(<<GetWorktreeBasePath,
                                          ClientGetRepoName(World, cwd).name>>)} :
              \E e \in EntryLines(last.out) :
                  /\ e.path = q
                  /\ (e.branch = Detached) <=> (q \notin WorktreePaths(World))
        /\ \A e \in EntryLines(last.out) :
              /\ e.path \in DOMAIN fs
              /\ fs[e.path] = "dir")

\* C8: cd (get-path) answers exactly basePath/repoName/ticket, where repoName
\* is what GetRepoName answers in the current directory: the same text for
\* the same three inputs, whatever else is the case; and the run changes
\* neither the file system nor git's worktrees and branches.
C8_GetPathIsJoin ==
    [][(last'.handler = "cd" /\ last'.err = "")
       => (/\ Len(last'.out) = 1
           /\ last'.out[1].path
                 = PathText(GetWorktreeBasePath, ClientGetRepoName(World, cwd).name,
                            last'.argv[2])
           /\ fs' = fs
           /\ worktrees' = worktrees
           /\ branches' = branches)]_vars

\* C8, reached: cd has just printed the path of a ticket that has no
\* worktree, in a repository that has one for another ticket.
C8_Witness ==
    /\ last.handler = "cd"
    /\ last.err = ""
    /\ last.path \notin DOMAIN fs
    /\ Len(worktrees) >= 2

\* The steps whose failure ends the run: every git command but the fetch of
\* create, and the file system calls MkdirAll and ReadDir.  (os.Stat is only
\* asked whether something exists.)
TerminalOps ==
    {"git rev-parse", "git worktree add", "git worktree remove", "git branch -D",
     "git worktree list", "mkdirall", "readdir"}

C10_OneDirectoryPerRepository ==
    /\ \A i \in 2..Len(worktrees) :
          worktrees[i].path
              = PathText(GetWorktreeBasePath, Base(worktrees[1].path),
                         Base(worktrees[i].path))
    /\ \A d \in WorktreePaths(World), t \in Tickets :
          Resolved(d, t).path
              = PathText(GetWorktreeBasePath, Base(worktrees[1].path), t)

\* A step of the behaviour that is a run of the program.
IsRun == last.handler = "idle" /\ last'.handler # "idle"

\* C11 as the specification states it: whatever a run of the program adds
\* below the base path is the worktree of a git worktree add that succeeded
\* in that run, and a run that ends with an error adds nothing.
C11_OnlyWorktreeAddCreates ==
    [][IsRun
       => (/\ \A p \in DOMAIN fs' \ DOMAIN fs :
                 IsUnder(p, GetWorktreeBasePath)
                 => (/\ p \in {worktrees'[i].path : i \in 1..Len(worktrees')}
                     /\ \E i \in 1..Len(last'.steps) :
                           /\ last'.steps[i] = Step("git worktree add", p, TRUE))
           /\ last'.err # "" => DOMAIN fs' = DOMAIN fs)]_vars

\* C11, amended: a run of the program adds to the file system only
\* directories, only in create, and only these: the target of a git worktree
\* add that succeeded in that run, and the target's parents basePath/<repo>
\* and basePath, made by MkdirAll before the target is looked at.  A create
\* that ends with an error adds at most those parents, never the target.
C11_OnlyParentsAndWorktrees ==
    [][IsRun
       => (\A p \in DOMAIN fs' \ DOMAIN fs :
              /\ last'.handler = "create"
              /\ fs'[p] = "dir"
              /\ \/ /\ p = last'.path
                    /\ last'.err = ""
                    /\ p \in {worktrees'[i].path : i \in 1..Len(worktrees')}
                    /\ \E i \in 1..Len(last'.steps) :
                          last'.steps[i] = Step("git worktree add", p, TRUE)
                 \/ /\ p \in {GetWorktreeBasePath, Dir(last'.path)}
                    /\ \E i \in 1..Len(last'.steps) :
                          last'.steps[i] = Step("mkdirall", Dir(last'.path), TRUE))]_vars

\* C11, reached: a create has just failed in git worktree add, in a
\* repository that has no worktree and whose user made nothing by hand; the
\* parent of the target is there, the target is not.
C11_Witness ==
    /\ last.handler = "create"
    /\ last.err = "failed to create worktree"
    /\ Len(worktrees) = 1
    /\ ext = 0
    /\ Dir(last.path) \in DOMAIN fs
    /\ last.path \notin DOMAIN fs

\* A command line has been run (in either state machine).
HasRun == last.handler \notin {"idle", "typed"}

\* The run printed text without calling a handler and exited 0.
OnlyPrinted(kind) ==
    /\ last.handler = kind
    /\ last.exit = 0
    /\ last.steps = <<>>
    /\ \E i \in 1..Len(last.out) : last.out[i].kind = kind

\* The run called no handler and exited 1.
Rejected ==
    /\ last.handler = "unknown"
    /\ last.exit = 1
    /\ last.steps = <<>>

\* The handler each command name stands for, as the specification lists them.
HandlerOfName ==
    [c \in {CmdCreate, WordAdd, WordNew} |-> "create"]
    @@ [c \in {CmdDelete, WordRm, WordCleanup, WordRemove} |-> "delete"]
    @@ [c \in {CmdList, WordLs} |-> "list"]
    @@ [c \in {CmdCD, WordSwitch} |-> "cd"]

\* C12 as the specification states it: each command name reaches its
\* handler; help, version and an empty command line print text and exit 0
\* without a handler; every other first word reaches no handler and exits 1.
C12_DispatchByName ==
    HasRun
    => IF last.argv = <<>> THEN OnlyPrinted("usage")
       ELSE IF last.argv[1] \in DOMAIN HandlerOfName
       THEN last.handler = HandlerOfName[last.argv[1]]
       ELSE IF last.argv[1] = WordHelp THEN OnlyPrinted("usage")
       ELSE IF last.argv[1] = WordVersion THEN OnlyPrinted("version")
       ELSE Rejected

\* C12, amended: as above, with --help and -h printing the usage like help,
\* and --version and -v printing the version like version.
C12_DispatchByNameAndOption ==
    HasRun
    => IF last.argv = <<>> THEN OnlyPrinted("usage")
       ELSE IF last.argv[1] \in DOMAIN HandlerOfName
       THEN last.handler = HandlerOfName[last.argv[1]]
       ELSE IF last.argv[1] \in {WordHelp, <<"-", "-">> \o WordHelp, <<"-", "h">>}
       THEN OnlyPrinted("usage")
       ELSE IF last.argv[1] \in {WordVersion, <<"-", "-">> \o WordVersion, <<"-", "v">>}
       THEN OnlyPrinted("version")
       ELSE Rejected

\* C12, reached: the alias rm, followed by a ticket, has reached the delete
\* handler.
C12_Witness ==
    /\ HasRun
    /\ last.argv = <<WordRm, T1>>
    /\ last.handler = "delete"


(***************************************************************************)
(* Processes with and without HOME: a command is typed in an environment   *)
(* in which os.UserHomeDir finds the home directory or does not, and runs. *)
(***************************************************************************)
HomeArgvs ==
    {<<CmdCreate, t>> : t \in Tickets} \cup {<<CmdDelete, t>> : t \in Tickets}
        \cup {<<CmdDelete, FlagD, t>> : t \in Tickets}
        \cup {<<CmdCD, t>> : t \in Tickets} \cup {<<CmdList>>}

TypedAt(argv, homeOk) == [home |-> homeOk] @@ Typed(argv)

HomeInit ==
    /\ \E top \in MainTops :
         /\ worktrees = <<[path |-> top, branch |-> MainBranch]>>
         /\ cwd = top
         /\ fs = (Root :> "dir") @@ (HomeDir :> "dir") @@ (top :> "dir")
                  @@ (OutsideDir :> "dir")
    /\ branches = (MainBranch :> 0) @@ (DevelopBranch :> 1)
    /\ ext = 0
    /\ last = Idle

HomeType ==
    /\ last.handler # "typed"
    /\ \E argv \in HomeArgvs, homeOk \in BOOLEAN : last' = TypedAt(argv, homeOk)
    /\ UNCHANGED <<fs, worktrees, branches, cwd, ext>>

HomeRun ==
    /\ last.handler = "typed"
    /\ Invoke(last.argv, [AllOk EXCEPT !.homeOk = last.home])

HomeNext == HomeType \/ HomeRun
HomeSpec == HomeInit /\ [][HomeNext]_vars

(***************************************************************************)
(* The parse of the output of 'git worktree list' as a state machine: the  *)
(* initial state holds the lines git printed, the one step hands the text  *)
(* to the parse of Client.ListWorktrees.                                   *)
(***************************************************************************)
MaxLines == 3

\* shapes of a line: a worktree on a branch, a path with a space, a bare
\* repository, an empty line, a detached HEAD, tabs and doubled brackets, a
\* single word, surrounding and doubled spaces with an empty branch name,
\* brackets inside out and a fourth field
LineShapes ==
    {<<"/", "a", " ", "1", " ", "[", "T", "]">>,
     <<"/", "m", "y", " ", "a", " ", "2", " ", "[", "T", "]">>,
     <<"/", "b", " ", "(", "b", "a", "r", "e", ")">>,
     <<>>,
     <<"/", "c", " ", "3", " ", "(", "d", "e", "t", "a", "c", "h", "e", "d", " ", "H", "E", "A", "D", ")">>,
     <<"/", "d", "\t", "4", "\t", "[", "[", "m", "]", "]">>,
     <<"x">>,
     <<" ", "/", "e", " ", " ", "5", " ", " ", "[", "]", " ">>,
     <<"/", "f", " ", "6", " ", "]", "T", "[", " ", "x">>}

PrintedLines == SeqsUpTo(LineShapes, MaxLines)

\* each line git prints ends with a newline
OutputOf(lines) == ConcatAll([i \in 1..Len(lines) |-> lines[i] \o <<"\n">>])

Printed(lines) ==
    [lines |-> lines, output |-> OutputOf(lines), worktrees |-> <<>>]
        @@ [Idle EXCEPT !.handler = "printed"]

ParseInit ==
    /\ \E top \in MainTops :
         /\ worktrees = <<[path |-> top, branch |-> MainBranch]>>
         /\ cwd = top
         /\ fs = (Root :> "dir") @@ (HomeDir :> "dir") @@ (top :> "dir")
                  @@ (OutsideDir :> "dir")
    /\ branches = (MainBranch :> 0) @@ (DevelopBranch :> 1)
    /\ ext = 0
    /\ \E lines \in PrintedLines : last = Printed(lines)

ListWorktreesParse ==
    /\ last.handler = "printed"
    /\ last' = [last EXCEPT !.handler = "parsed",
                            !.worktrees = ParseWorktreeOutput(last.output)]
    /\ UNCHANGED <<fs, worktrees, branches, cwd, ext>>

ParseNext == ListWorktreesParse
ParseSpec == ParseInit /\ [][ParseNext]_vars

(***************************************************************************)
(* C13, C14: the errors of the git collaborator                            *)
(***************************************************************************)
\* sub occurs in s as a contiguous run of characters
Contains(s, sub) ==
    \E i \in 0..(Len(s) - Len(sub)) : SubSeq(s, i + 1, i + Len(sub)) = sub

\* the directories, paths and branch names the operations are probed with
ProbeDirs == WorktreePaths(World) \cup {OutsideDir}
ProbePaths == WorktreePaths(World) \cup ExtPaths
ProbeBranches == Tickets \cup {MainBranch}

\* C13: each of the six operations of the git collaborator returns an error
\* exactly when its git command exits with a status other than 0, and returns
\* success (no error) otherwise, whatever the repository, the directory and
\* the arguments are.
C13_ErrorIffNonZeroExit ==
    /\ \A d \in ProbeDirs :
           LET c == ClientGetRepoName(World, d)
           IN /\ c.ok = (ExecRevParseToplevel(World, d).exit = 0)
              /\ c.ok = (c.err = <<>>)
    /\ \A b \in ProbeBranches, envOk \in BOOLEAN :
           LET c == ClientFetchBranch(b, envOk)
           IN /\ c.ok = (ExecFetch(b, envOk).exit = 0)
              /\ c.ok = (c.err = <<>>)
    /\ \A d \in ProbeDirs, p \in ProbePaths, b \in ProbeBranches, envOk \in BOOLEAN :
           LET c == ClientCreateWorktree(World, d, p, b, envOk)
           IN /\ c.ok = (ExecWorktreeAdd(World, d, p, b, envOk).exit = 0)
              /\ c.ok = (c.err = <<>>)
    /\ \A d \in ProbeDirs, p \in ProbePaths, envOk \in BOOLEAN :
           LET c == ClientRemoveWorktree(World, d, p, envOk)
           IN /\ c.ok = (ExecWorktreeRemove(World, d, p, envOk).exit = 0)
              /\ c.ok = (c.err = <<>>)
    /\ \A b \in ProbeBranches, envOk \in BOOLEAN :
           LET c == ClientDeleteBranch(World, b, envOk)
           IN /\ c.ok = (ExecBranchDelete(World, b, envOk).exit = 0)
              /\ c.ok = (c.err = <<>>)
    /\ \A d \in ProbeDirs, envOk \in BOOLEAN :
           LET c == ClientListWorktrees(World, d, envOk)
           IN /\ c.ok = (ExecWorktreeList(World, d, envOk).exit = 0)
              /\ c.ok = (c.err = <<>>)

\* a create whose fetch failed and whose 'git worktree add' succeeded has
\* run, and in the repository it left a removal of the new worktree succeeds
\* while a removal of a path that is no worktree fails
C13_Witness ==
    /\ last.handler = "create"
    /\ \E i \in 1..Len(last.steps) :
           last.steps[i].op = "git fetch" /\ ~last.steps[i].ok
    /\ \E i \in 1..Len(last.steps) :
           last.steps[i].op = "git worktree add" /\ last.steps[i].ok
    /\ ExecWorktreeRemove(World, cwd, last.path, TRUE).exit = 0
    /\ ExecWorktreeRemove(World, cwd, OutsideDir, TRUE).exit # 0

\* C14: for every one of the six operations, the error returned when git
\* exits with a status other than 0 holds the text git printed.
C14_ErrorCarriesOutput ==
    /\ \A d \in ProbeDirs :
           LET c == ClientGetRepoName(World, d)
           IN ~c.ok => Contains(c.err, ExecRevParseToplevel(World, d).out)
    /\ \A b \in ProbeBranches, envOk \in BOOLEAN :
           LET c == ClientFetchBranch(b, envOk)
           IN ~c.ok => Contains(c.err, ExecFetch(b, envOk).out)
    /\ \A d \in ProbeDirs, p \in ProbePaths, b \in ProbeBranches, envOk \in BOOLEAN :
           LET c == ClientCreateWorktree(World, d, p, b, envOk)
           IN ~c.ok => Contains(c.err, ExecWorktreeAdd(World, d, p, b, envOk).out)
    /\ \A d \in ProbeDirs, p \in ProbePaths, envOk \in BOOLEAN :
           LET c == ClientRemoveWorktree(World, d, p, envOk)
           IN ~c.ok => Contains(c.err, ExecWorktreeRemove(World, d, p, envOk).out)
    /\ \A b \in ProbeBranches, envOk \in BOOLEAN :
           LET c == ClientDeleteBranch(World, b, envOk)
           IN ~c.ok => Contains(c.err, ExecBranchDelete(World, b, envOk).out)
    /\ \A d \in ProbeDirs, envOk \in BOOLEAN :
           LET c == ClientListWorktrees(World, d, envOk)
           IN ~c.ok => Contains(c.err, ExecWorktreeList(World, d, envOk).out)

(***************************************************************************)
(* C15: the records of list-worktrees                                      *)
(***************************************************************************)
\* a field of a line is a longest run of characters that are not white
\* space; FieldRuns is the set of the <<first, last>> positions of the fields
FieldRuns(line) ==
    {r \in (1..Len(line)) \X (1..Len(line)) :
        /\ r[1] <= r[2]
        /\ \A i \in r[1]..r[2] : line[i] \notin SpaceChars
        /\ r[1] = 1 \/ line[r[1] - 1] \in SpaceChars
        /\ r[2] = Len(line) \/ line[r[2] + 1] \in SpaceChars}

\* the k-th field of a line that has at least k fields
FieldAt(line, k) ==
    LET r == CHOOSE q \in FieldRuns(line) :
                 Cardinality({p \in FieldRuns(line) : p[1] < q[1]}) = k - 1
    IN SubSeq(line, r[1], r[2])

\* a text without the square brackets at its two ends
Unbracketed(s) ==
    LET inner == {i \in 1..Len(s) : s[i] \notin {"[", "]"}}
    IN IF inner = {} THEN <<>>
       ELSE SubSeq(s, CHOOSE i \in inner : \A j \in inner : i <= j,
                      CHOOSE i \in inner : \A j \in inner : j <= i)

\* the positions of the printed lines that have at least three fields
WideLines(lines) == {i \in 1..Len(lines) : Cardinality(FieldRuns(lines[i])) >= 3}

\* the position of the k-th line that has at least three fields
WideAt(lines, k) ==
    CHOOSE i \in WideLines(lines) :
        Cardinality({j \in WideLines(lines) : j < i}) = k - 1

\* C15: list-worktrees returns exactly one record per printed line that has
\* at least three fields, in the order of the lines; the record's path is the
\* first field of its line and its branch is the third field without the
\* square brackets at its ends; the other lines give no record.
C15_OneRecordPerWideLine ==
    last.handler = "parsed" =>
        /\ Len(last.worktrees) = Cardinality(WideLines(last.lines))
        /\ \A k \in 1..Len(last.worktrees) :
               LET line == last.lines[WideAt(last.lines, k)]
               IN /\ last.worktrees[k].Path = FieldAt(line, 1)
                  /\ last.worktrees[k].Branch = Unbracketed(FieldAt(line, 3))

\* a bare repository's line, a worktree with doubled brackets and tabs, and
\* an empty line were printed: the parse gave the one record
C15_Witness ==
    /\ last.handler = "parsed"
    /\ Len(last.lines) = 3
    /\ Cardinality(WideLines(last.lines)) = 1
    /\ Len(last.worktrees) = 1
    /\ last.worktrees[1] = [Path |-> <<"/", "d">>, Branch |-> <<"m">>]
    /\ Len(last.lines[2]) > 0 /\ "\t" \in {last.lines[2][i] : i \in 1..Len(last.lines[2])}

(***************************************************************************)
(* C16: the manager's base path                                            *)
(***************************************************************************)
\* C16: the manager's base path is <home>/worktrees in every run, whatever
\* was run before: every path a run resolved lies below <home>/worktrees.
C16_BasePathIsHomeWorktrees ==
    (HasRun /\ last.path # <<>>)
        => SubSeq(last.path, 1, Len(HomeDir) + 1 + Len(WorktreesName))
               = HomeDir \o <<"/">> \o WorktreesName

(***************************************************************************)
(* C17: a failed fetch in create                                           *)
(***************************************************************************)
\* the positions of the failed fetches among the steps of the last run
FailedFetches == {i \in 1..Len(last.steps) :
                     last.steps[i].op = "git fetch" /\ ~last.steps[i].ok}

StepsOf(rec, op) == {i \in 1..Len(rec.steps) : rec.steps[i].op = op}

\* C18: a delete that reached Manager.Delete's removal issues 'git branch -D'
\* for the branch named as the ticket exactly when deleteBranch is true and
\* 'git worktree remove' has succeeded before; when the removal fails the
\* deletion is not attempted and the branches are what they were.
C18_BranchDeletionAfterRemoval ==
    [][(IsRun /\ last'.handler = "delete")
         => /\ StepsOf(last', "git branch -D") # {}
                  <=> (/\ last'.flag
                       /\ \E i \in StepsOf(last', "git worktree remove") :
                              last'.steps[i].ok)
            /\ \A j \in StepsOf(last', "git branch -D") :
                  /\ last'.steps[j].arg = last'.ticket
                  /\ j > 1
                  /\ last'.steps[j - 1] = Step("git worktree remove", last'.path, TRUE)
            /\ (\E i \in StepsOf(last', "git worktree remove") : ~last'.steps[i].ok)
                  => /\ StepsOf(last', "git branch -D") = {}
                     /\ branches' = branches]_vars

\* a delete with -d removed the worktree and then the branch
C18_Witness ==
    /\ last.handler = "delete"
    /\ last.flag
    /\ StepsOf(last, "git branch -D") # {}
    /\ last.steps[Len(last.steps)] = Step("git branch -D", last.ticket, TRUE)
    /\ last.ticket \notin DOMAIN branches
    /\ last.path \notin DOMAIN fs

(***************************************************************************)
(* C19: the ticket and the base branch of create                           *)
(***************************************************************************)
IsDashed(word) == Len(word) >= 2 /\ word[1] = "-"

\* word has the form -base=<value>
HasInlineBase(word) ==
    /\ Len(word) > Len(FlagBase)
    /\ SubSeq(word, 1, Len(FlagBase) + 1) = FlagBase \o <<"=">>

\* the value of a word of the form -base=<value>
InlineBase(word) == SubSeq(word, Len(FlagBase) + 2, Len(word))

\* words is a run of settings of the -base flag: -base <value> or -base=<value>
RECURSIVE IsBaseFlagRun(_)
IsBaseFlagRun(words) ==
    \/ words = <<>>
    \/ /\ Len(words) >= 2 /\ words[1] = FlagBase
       /\ IsBaseFlagRun(SubSeq(words, 3, Len(words)))
    \/ /\ words # <<>> /\ HasInlineBase(words[1])
       /\ IsBaseFlagRun(Tail(words))

\* the value the last setting of a non-empty run gives the flag
RECURSIVE LastBaseValue(_)
LastBaseValue(words) ==
    IF words[1] = FlagBase
    THEN IF Len(words) = 2 THEN words[2]
         ELSE LastBaseValue(SubSeq(words, 3, Len(words)))
    ELSE IF Len(words) = 1 THEN InlineBase(words[1])
         ELSE LastBaseValue(Tail(words))

\* the lengths k such that the first k arguments set the flag and the
\* positional arguments start after them
FlagPrefixes(args) ==
    {k \in 0..Len(args) :
        /\ IsBaseFlagRun(SubSeq(args, 1, k))
        /\ k = Len(args) \/ ~IsDashed(args[k + 1])}

RepoPathNow == Join(<<GetWorktreeBasePath, ClientGetRepoName(World, cwd).name>>)

\* nothing exists at p
NothingAt(p) == p \notin DOMAIN fs

\* os.Stat reports that p does not exist: nothing is at p, and nothing that
\* is not a directory is above it
ReportedMissing(p) ==
    /\ p \notin DOMAIN fs
    /\ \A q \in DOMAIN fs : IsUnder(p, q) => fs[q] = "dir"

\* p is a directory without entries
EmptyDirAt(p) ==
    /\ p \in DOMAIN fs
    /\ fs[p] = "dir"
    /\ \A q \in DOMAIN fs : ~IsUnder(q, p)

\* the run record says: success, a 'No worktrees found' line, no entry
NoneFound(rec) ==
    /\ rec.exit = 0
    /\ rec.err = ""
    /\ \E k \in 1..Len(rec.out) : rec.out[k].kind \in {"none-for-repo", "none-found"}
    /\ \A k \in 1..Len(rec.out) : rec.out[k].kind # "entry"

\* the run record says: list got the repository's name and the worktrees
\* git reports
GitAnswered(rec) ==
    /\ Step("git rev-parse", <<>>, TRUE) \in {rec.steps[i] : i \in 1..Len(rec.steps)}
    /\ Step("git worktree list", <<>>, TRUE) \in {rec.steps[i] : i \in 1..Len(rec.steps)}

\* an error of list is one of the three, and the step it names is the one
\* that failed
ListErrorIsOneOfThree(rec) ==
    rec.exit # 0 =>
        \/ /\ rec.err = "not in a git repository"
           /\ rec.steps = <<Step("git rev-parse", <<>>, FALSE)>>
        \/ /\ rec.err = "failed to list worktrees"
           /\ rec.steps[Len(rec.steps)] = Step("git worktree list", <<>>, FALSE)
        \/ /\ rec.err = "failed to read worktree directory"
           /\ rec.steps[Len(rec.steps)] = Step("readdir", rec.path, FALSE)

RemovedButBranchKept(rec) ==
    /\ rec.handler = "delete"
    /\ Len(rec.steps) >= 2
    /\ rec.steps[Len(rec.steps) - 1] = Step("git worktree remove", rec.path, TRUE)
    /\ rec.steps[Len(rec.steps)] = Step("git branch -D", rec.ticket, FALSE)

\* C21: when 'git worktree remove' succeeds and the branch deletion after it
\* fails, delete returns 'failed to delete branch' and the worktree stays
\* removed: the worktree that was there before the run is gone after it,
\* from git's worktrees and from the file system.
C21_NoRollbackOfRemoval ==
    [][(IsRun /\ RemovedButBranchKept(last'))
         => /\ last'.err = "failed to delete branch"
            /\ last'.exit = 1
            /\ last'.path \in WorktreePaths(World)
            /\ last'.path \in DOMAIN fs
            /\ last'.path \notin {worktrees'[i].path : i \in 1..Len(worktrees')}
            /\ last'.path \notin DOMAIN fs'
            /\ Len(worktrees') = Len(worktrees) - 1]_vars

\* a delete -d ended in 'failed to delete branch' with the worktree gone
\* and the branch still there
C21_Witness ==
    /\ RemovedButBranchKept(last)
    /\ last.err = "failed to delete branch"
    /\ last.path \notin WorktreePaths(World)
    /\ last.path \notin DOMAIN fs
    /\ last.ticket \in DOMAIN branches

(***************************************************************************)
(* C22: the commands that only read                                        *)
(***************************************************************************)
\* the handlers of list, cd, help and version
ReadOnlyHandlers == {"list", "cd", "usage", "version"}

\* C22: a run of list, cd, help or version, whether it succeeds or fails,
\* leaves every file and directory, every git worktree and every branch as
\* it was.
C22_ReadOnlyCommands ==
    [][(IsRun /\ last'.handler \in ReadOnlyHandlers)
         => (fs' = fs /\ worktrees' = worktrees /\ branches' = branches)]_vars

\* a list ran where the repository has no directory below the base path,
\* and none is there after it
C22_Witness ==
    /\ last.handler = "list"
    /\ last.exit = 0
    /\ last.out = <<Line("none-for-repo", Base(worktrees[1].path), <<>>, <<>>)>>
    /\ last.path \notin DOMAIN fs

(***************************************************************************)
(* C23: list after create                                                  *)
(***************************************************************************)
\* the tickets whose worktree, made by create from the main checkout, is
\* there: git has the worktree get-path(t) on the branch t
CreatedTickets ==
    {t \in Tickets :
        /\ Resolved(worktrees[1].path, t).ok
        /\ \E i \in 2..Len(worktrees) :
               worktrees[i] = [path |-> Resolved(worktrees[1].path, t).path,
                               branch |-> t]}

\* C23: from a successful create of T in the main checkout until T is
\* deleted, a list in the main checkout shows T with the branch T and never
\* with the label "detached".
C23_ListShowsBranchOfCreated ==
    [][(IsRun /\ last'.handler = "list" /\ last'.exit = 0
          /\ cwd = worktrees[1].path)
         => \A t \in CreatedTickets :
                /\ \E k \in 1..Len(last'.out) :
                       last'.out[k] = Line("entry", t,
                                           Resolved(worktrees[1].path, t).path, t)
                /\ \A k \in 1..Len(last'.out) :
                       (last'.out[k].kind = "entry" /\ last'.out[k].ticket = t)
                           => last'.out[k].branch # Detached]_vars

(***************************************************************************)
(* C24: create after a delete that kept the branch                         *)
(***************************************************************************)
\* the branch named t exists and no worktree is on it: what a delete of t
\* without -d leaves
BranchKept(t) ==
    /\ t \in DOMAIN branches
    /\ \A i \in 1..Len(worktrees) : worktrees[i].branch # t

\* C24: while the branch T exists, a create of T whose target path is free
\* fails with 'failed to create worktree' and leaves no directory at
\* get-path(T), no new worktree and the branches as they were; a create of T
\* succeeds only when no branch T exists before it.
C24_CreateFailsWhileBranchKept ==
    [][(IsRun /\ last'.handler = "create" /\ last'.steps # <<>>)
         => /\ (/\ BranchKept(last'.ticket)
                /\ Resolved(cwd, last'.ticket).ok
                /\ ReportedMissing(Resolved(cwd, last'.ticket).path))
                  => /\ last'.err = "failed to create worktree"
                     /\ last'.exit = 1
                     /\ last'.steps[Len(last'.steps)]
                            = Step("git worktree add", last'.path, FALSE)
                     /\ last'.path = Resolved(cwd, last'.ticket).path
                     /\ last'.path \notin DOMAIN fs'
                     /\ worktrees' = worktrees
                     /\ branches' = branches
            /\ last'.exit = 0 => last'.ticket \notin DOMAIN branches]_vars

\* a create failed at 'git worktree add' for a ticket whose branch a delete
\* had kept, although the fetch had succeeded and the target was free
C24_Witness ==
    /\ last.handler = "create"
    /\ last.err = "failed to create worktree"
    /\ BranchKept(last.ticket)
    /\ last.path \notin DOMAIN fs
    /\ Dir(last.path) \in DOMAIN fs
    /\ Step("git fetch", last.base, TRUE) \in {last.steps[i] : i \in 1..Len(last.steps)}

(***************************************************************************)
(* C25: a directory below the base path that is no worktree                *)
(***************************************************************************)
\* the directories basePath/<repo>/<name> that git does not report as a
\* worktree
StrayDirs ==
    {p \in DOMAIN fs :
        /\ fs[p] = "dir"
        /\ Dir(Dir(p)) = GetWorktreeBasePath
        /\ p \notin WorktreePaths(World)}

\* C25: for a directory below basePath/<repo> that git does not report as a
\* worktree, list shows it as "detached"; delete finds it, 'git worktree
\* remove' fails and delete returns 'failed to remove worktree'; create for
\* its ticket fails with 'directory already exists'; and after any run of the
\* tool the directory is still there and still no worktree.
C25_StrayDirectoryStays ==
    [][IsRun
         => /\ \A p \in StrayDirs :
                   /\ p \in DOMAIN fs'
                   /\ fs'[p] = "dir"
                   /\ p \notin {worktrees'[i].path : i \in 1..Len(worktrees')}
            /\ (last'.handler = "delete" /\ last'.path \in StrayDirs)
                   => /\ last'.err = "failed to remove worktree"
                      /\ last'.exit = 1
                      /\ last'.steps
                             = <<Step("git rev-parse", <<>>, TRUE),
                                 Step("stat", last'.path, TRUE),
                                 Step("git worktree remove", last'.path, FALSE)>>
            /\ (last'.handler = "create" /\ last'.path \in StrayDirs)
                   => /\ last'.err = "directory already exists"
                      /\ last'.exit = 1
                      /\ "git worktree add" \notin StepOps(last'.steps)
            /\ (last'.handler = "list" /\ last'.exit = 0)
                   => \A p \in StrayDirs :
                          Dir(p) = last'.path
                              => \E k \in 1..Len(last'.out) :
                                     last'.out[k] = Line("entry", Base(p), p, Detached)]_vars

\* a delete of a directory that is no worktree failed at 'git worktree
\* remove' and the directory is there
C25_Witness ==
    /\ last.handler = "delete"
    /\ last.err = "failed to remove worktree"
    /\ last.path \in StrayDirs

(***************************************************************************)
(* C26: cd                                                                 *)
(***************************************************************************)
\* C26: cd with a ticket, where the repository's name can be resolved,
\* prints 'cd <get-path(ticket)>' and exits 0, whatever is or is not at that
\* path; cd exits 1, printing no command, exactly when the ticket is missing
\* or the repository's name cannot be resolved.
C26_CDPrintsPath ==
    [][(IsRun /\ last'.handler = "cd")
         => IF Len(last'.argv) < 2
            THEN /\ last'.exit = 1
                 /\ last'.out = <<>>
                 /\ last'.err = "Ticket ID required"
            ELSE IF Resolved(cwd, last'.argv[2]).ok
            THEN /\ last'.exit = 0
                 /\ last'.out
                        = <<Line("cd", <<>>, Resolved(cwd, last'.argv[2]).path, <<>>)>>
                 /\ last'.path
                        = PathText(GetWorktreeBasePath,
                                   Base(WorktreeAt(World, cwd).path), last'.argv[2])
            ELSE /\ last'.exit = 1
                 /\ last'.out = <<>>
                 /\ last'.err = "not in a git repository"
                 /\ cwd \notin WorktreePaths(World)]_vars

\* cd printed the path of a ticket at which nothing exists
C26_Witness ==
    /\ last.handler = "cd"
    /\ last.exit = 0
    /\ last.out = <<Line("cd", <<>>, last.path, <<>>)>>
    /\ last.path \notin DOMAIN fs
    /\ last.path \notin WorktreePaths(World)
====
